---- MODULE Spec2Model ----
(***************************************************************************)
(* The AssetTransfer chaincode (src/src/assetTransfer.ts) as a state       *)
(* machine over the world state of one chaincode namespace.  The file      *)
(* holds two AssetTransferContract classes: the sensor contract (lines     *)
(* 16-217, records keyed by ID) and the metric contract (lines 234-380,    *)
(* records keyed by Timestamp).  A deployment runs one of them; `variant`  *)
(* says which.                                                             *)
(*                                                                         *)
(* Texts (the bytes of a ledger value, the strings the handlers return)    *)
(* are sequences of JSON tokens.  JavaScript objects are sequences of      *)
(* members in insertion order.  Numbers are integers counting millionths   *)
(* (Unit), so that the seed record's literals are exact.                   *)
(***************************************************************************)
EXTENDS Integers, Sequences, FiniteSets, TLC

\* ------------------------------------------------------------------ bounds
\* How many of AllKeys the clients use as keys.
NumKeys == 2
\* How many simulated transactions may await their commit at once.
MaxPending == 2
\* How many committed writes a key is followed through.
MaxVersion == 2

\* ------------------------------------------------------- program constants
\* One whole number, in millionths: the seed's Latitude 45.464664 has six decimals.
Unit == 1000000

\* The keys, in ascending byte order (the order getStateByRange returns them in).
AllKeys == <<"00:00:00", "basdni7s8acadad8a9d8", "k1", "k2", "k3">>

Keys == {AllKeys[i] : i \in 1..NumKeys}

KeyRank(k) == CHOOSE i \in 1..Len(AllKeys) : AllKeys[i] = k

Owners == {"A", "B"}

\* The numbers clients supply: the whole numbers 0 and 1.
Nums == {0, Unit}

\* Every property name of the two record shapes, in ascending UTF-16 code unit
\* order, which is the order Array.prototype.sort() gives Object.keys().
FieldOrder == <<"Accelerometer", "Gas_resistance", "Gyroscope", "Humidity", "ID",
    "Latitude", "Light", "Longitude", "Methanelevel", "Owner", "Pressure", "SNR",
    "Temperature", "Timestamp", "VBAT", "docType">>

\* ------------------------------------------------------- JavaScript values
NumV(n) == [t |-> "number", s |-> "", n |-> n, a |-> <<>>]

StrV(s) == [t |-> "string", s |-> s, n |-> 0, a |-> <<>>]

ArrV(a) == [t |-> "array", s |-> "", n |-> 0, a |-> a]

Undefined == [t |-> "undefined", s |-> "", n |-> 0, a |-> <<>>]

Member(name, v) == [k |-> name, v |-> v]

HasProp(obj, name) == \E i \in 1..Len(obj) : obj[i].k = name

\* obj.name: the property's value, undefined when the object has none.
GetProp(obj, name) ==
    IF HasProp(obj, name)
    THEN obj[CHOOSE i \in 1..Len(obj) : obj[i].k = name].v
    ELSE Undefined

\* obj.name = v: in place when the property exists, appended otherwise.
SetProp(obj, name, v) ==
    IF HasProp(obj, name)
    THEN [i \in 1..Len(obj) |-> IF obj[i].k = name THEN Member(name, v) ELSE obj[i]]
    ELSE Append(obj, Member(name, v))

\* ------------------------------------------------------------------ tokens
Tok(t, s, n) == [t |-> t, s |-> s, n |-> n]

LBrace == Tok("{", "{", 0)

RBrace == Tok("}", "}", 0)

LBrack == Tok("[", "[", 0)

RBrack == Tok("]", "]", 0)

Colon == Tok(":", ":", 0)

Comma == Tok(",", ",", 0)

StrTok(s) == Tok("string", s, 0)

NumTok(n) == Tok("number", "", n)

\* A bare word: what a value that is no JSON is made of.
WordTok(s) == Tok("word", s, 0)

\* The characters a token stands for.
Spelling(tok) ==
    CASE tok.t = "string" -> "\"" \o tok.s \o "\""
      [] tok.t = "number" -> ToString(tok.n)
      [] OTHER -> tok.s

RECURSIVE TextToString(_)
\* Buffer.toString(): the characters of a text, as one string.
TextToString(text) ==
    IF text = <<>> THEN ""
    ELSE Spelling(Head(text)) \o TextToString(Tail(text))

RECURSIVE Join(_)
\* The texts of a sequence, with a comma between neighbours.
Join(texts) ==
    IF texts = <<>> THEN <<>>
    ELSE IF Len(texts) = 1 THEN texts[1]
    ELSE texts[1] \o <<Comma>> \o Join(Tail(texts))

\* The text of one value: arrays keep their elements' order, no whitespace.
ValueText(v) ==
    CASE v.t = "number" -> <<NumTok(v.n)>>
      [] v.t = "string" -> <<StrTok(v.s)>>
      [] v.t = "array" ->
            <<LBrack>> \o Join([i \in 1..Len(v.a) |-> <<NumTok(v.a[i])>>]) \o <<RBrack>>
      [] OTHER -> <<>>

\* The members whose value JSON can write (an undefined property is left out).
Written(obj) == SelectSeq(obj, LAMBDA m : m.v.t # "undefined")

\* JSON.stringify(obj): the members in insertion order.
JSONStringify(obj) ==
    LET ms == Written(obj)
    IN  <<LBrace>>
        \o Join([i \in 1..Len(ms) |-> <<StrTok(ms[i].k), Colon>> \o ValueText(ms[i].v)])
        \o <<RBrace>>

\* ------------------------------------------------------- canonical encoder
RECURSIVE Insert(_, _)
\* a (ascending) with n put in its place.
Insert(a, n) ==
    IF a = <<>> THEN <<n>>
    ELSE IF n <= Head(a) THEN <<n>> \o a
    ELSE <<Head(a)>> \o Insert(Tail(a), n)

RECURSIVE SortArray(_)
\* sort-keys-recursive sorts the elements of an array as well (arr.sort() with no
\* compare function): ascending by their text, which for the numbers of this
\* model (equal elements, or whole numbers below ten) is ascending by value.
SortArray(a) ==
    IF a = <<>> THEN <<>>
    ELSE Insert(SortArray(Tail(a)), Head(a))

\* The members of obj in ascending order of their names.
SortKeys(obj) ==
    LET present == SelectSeq(FieldOrder, LAMBDA name : HasProp(obj, name))
    IN  [i \in 1..Len(present) |-> Member(present[i], GetProp(obj, present[i]))]

\* sortKeysRecursive(obj): keys ascending; an array value comes back sorted.
sortKeysRecursive(obj) ==
    LET sorted == SortKeys(obj)
    IN  [i \in 1..Len(sorted) |->
            IF sorted[i].v.t = "array"
            THEN Member(sorted[i].k, ArrV(SortArray(sorted[i].v.a)))
            ELSE sorted[i]]

\* stringify(obj) of json-stringify-deterministic: JSON.stringify with the keys
\* of every object in ascending order; arrays are written in their own order.
stringify(obj) == JSONStringify(SortKeys(obj))

\* Buffer.from(stringify(sortKeysRecursive(obj))): the bytes written to the ledger.
Encode(obj) == stringify(sortKeysRecursive(obj))

\* ------------------------------------------------------------- JSON.parse
ParseFail == [ok |-> FALSE, v |-> Undefined, next |-> 0]

RECURSIVE ParseElems(_, _, _)
\* The elements of an array from token i on, up to its closing bracket.
ParseElems(text, i, acc) ==
    IF i + 1 > Len(text) \/ text[i].t # "number" THEN ParseFail
    ELSE LET acc2 == Append(acc, text[i].n)
         IN  CASE text[i + 1].t = "]" -> [ok |-> TRUE, v |-> ArrV(acc2), next |-> i + 2]
               [] text[i + 1].t = "," -> ParseElems(text, i + 2, acc2)
               [] OTHER -> ParseFail

\* The value that starts at token i.
ParseValue(text, i) ==
    IF i > Len(text) THEN ParseFail
    ELSE CASE text[i].t = "number" -> [ok |-> TRUE, v |-> NumV(text[i].n), next |-> i + 1]
           [] text[i].t = "string" -> [ok |-> TRUE, v |-> StrV(text[i].s), next |-> i + 1]
           [] text[i].t = "[" ->
                IF i + 1 <= Len(text) /\ text[i + 1].t = "]"
                THEN [ok |-> TRUE, v |-> ArrV(<<>>), next |-> i + 2]
                ELSE ParseElems(text, i + 1, <<>>)
           [] OTHER -> ParseFail

RECURSIVE ParseMembers(_, _, _)
\* The members of an object from token i on, up to its closing brace; a name
\* met again overwrites the earlier member.
ParseMembers(text, i, acc) ==
    IF i + 1 > Len(text) \/ text[i].t # "string" \/ text[i + 1].t # ":" THEN
        [ok |-> FALSE, obj |-> <<>>, next |-> 0]
    ELSE LET val == ParseValue(text, i + 2)
         IN  IF ~val.ok \/ val.next > Len(text) THEN [ok |-> FALSE, obj |-> <<>>, next |-> 0]
             ELSE LET acc2 == SetProp(acc, text[i].s, val.v)
                  IN  CASE text[val.next].t = "}" ->
                                [ok |-> TRUE, obj |-> acc2, next |-> val.next + 1]
                        [] text[val.next].t = "," -> ParseMembers(text, val.next + 1, acc2)
                        [] OTHER -> [ok |-> FALSE, obj |-> <<>>, next |-> 0]

\* JSON.parse(text): ok is FALSE where JSON.parse throws a SyntaxError.  The
\* values of this model are object texts or bare words, so a text is an object
\* or no JSON at all.
JSONParse(text) ==
    IF Len(text) < 2 \/ text[1].t # "{" THEN [ok |-> FALSE, obj |-> <<>>]
    ELSE IF text[2].t = "}" THEN [ok |-> Len(text) = 2, obj |-> <<>>]
    ELSE LET r == ParseMembers(text, 2, <<>>)
         IN  [ok |-> r.ok /\ r.next = Len(text) + 1, obj |-> IF r.ok THEN r.obj ELSE <<>>]

\* ----------------------------------------------------------- ledger access
\* ctx.stub.getState(key): the value, empty when the key holds none.
GetState(ws, key) == IF key \in DOMAIN ws THEN ws[key] ELSE <<>>

\* ctx.stub.putState(key, value)
PutState(ws, key, value) ==
    [k \in DOMAIN ws \cup {key} |-> IF k = key THEN value ELSE ws[k]]

\* ctx.stub.deleteState(key)
DeleteState(ws, key) == [k \in DOMAIN ws \ {key} |-> ws[k]]

\* ctx.stub.getStateByRange('', ''): every key with its value, keys ascending.
GetStateByRange(ws) ==
    LET present == SelectSeq(AllKeys, LAMBDA k : k \in DOMAIN ws)
    IN  [i \in 1..Len(present) |-> [key |-> present[i], value |-> ws[present[i]]]]

\* ------------------------------------------------------ invocation results
\* What an invocation leaves: the world state, the error it threw ("None" when
\* it returned), and what it returned (a text, a boolean or a value).
Result(ws, err, text, bool, val) ==
    [ws |-> ws, err |-> err, text |-> text, bool |-> bool, val |-> val]

Returned(ws) == Result(ws, "None", <<>>, FALSE, Undefined)

Thrown(ws, err) == Result(ws, err, <<>>, FALSE, Undefined)

\* --------------------------------------------------------- sensor contract
SeedAsset ==
    << Member("ID", StrV("basdni7s8acadad8a9d8")),
       Member("SNR", NumV(500000)),
       Member("VBAT", NumV(3300000)),
       Member("Latitude", NumV(45464664)),
       Member("Longitude", NumV(12262900)),
       Member("Gas_resistance", NumV(500000)),
       Member("Temperature", NumV(31700000)),
       Member("Pressure", NumV(1000500000)),
       Member("Humidity", NumV(50500000)),
       Member("Light", NumV(500000)),
       Member("Gyroscope", ArrV(<<500000, 500000, 500000>>)),
       Member("Accelerometer", ArrV(<<500000, 500000, 500000>>)),
       Member("Owner", StrV("Chidera's IoT device 1")) >>

\* The assets InitLedger writes.
SeedAssets == <<SeedAsset>>

RECURSIVE PutSeeds(_, _, _)
\* The loop of InitLedger: tag each asset and put it under its key property.
PutSeeds(ws, assets, keyProp) ==
    IF assets = <<>> THEN ws
    ELSE LET asset == SetProp(Head(assets), "docType", StrV("asset"))
         IN  PutSeeds(PutState(ws, GetProp(asset, keyProp).s, Encode(asset)),
                      Tail(assets), keyProp)

\* Faulty InitLedger: a seed is put only where its key holds nothing.
InitLedgerIfAbsent(ws) ==
    IF Len(GetState(ws, GetProp(SeedAsset, "ID").s)) > 0 THEN Returned(ws)
    ELSE Returned(PutSeeds(ws, SeedAssets, "ID"))

InitLedger(ws) == Returned(PutSeeds(ws, SeedAssets, "ID"))

\* The object literal CreateAsset and UpdateAsset build from their parameters.
SensorAsset(id, a) ==
    << Member("ID", StrV(id)),
       Member("SNR", NumV(a.snr)),
       Member("VBAT", NumV(a.vbat)),
       Member("Latitude", NumV(a.latitude)),
       Member("Longitude", NumV(a.longitude)),
       Member("Gas_resistance", NumV(a.gas_resistance)),
       Member("Temperature", NumV(a.temperature)),
       Member("Pressure", NumV(a.pressure)),
       Member("Humidity", NumV(a.humidity)),
       Member("Light", NumV(a.light)),
       Member("Gyroscope", ArrV(a.gyroscope)),
       Member("Accelerometer", ArrV(a.accelerometer)),
       Member("Owner", StrV(a.owner)) >>

\* Faulty AssetExists: answers true for every key (length >= 0 for length > 0).
AssetExistsAlways(ws, id) == Result(ws, "None", <<>>, TRUE, Undefined)

AssetExists(ws, id) ==
    LET assetJSON == GetState(ws, id)
    IN  Result(ws, "None", <<>>, Len(assetJSON) > 0, Undefined)

\* Faulty CreateAsset: the existence check is left out.
CreateAssetNoCheck(ws, id, a) ==
    Returned(PutState(ws, id, Encode(SensorAsset(id, a))))

\* Faulty CreateAsset: the record is put before the existence check throws.
CreateAssetPutsFirst(ws, id, a) ==
    IF AssetExists(ws, id).bool
    THEN Thrown(PutState(ws, id, Encode(SensorAsset(id, a))), "AlreadyExists")
    ELSE Returned(PutState(ws, id, Encode(SensorAsset(id, a))))

CreateAsset(ws, id, a) ==
    IF AssetExists(ws, id).bool THEN Thrown(ws, "AlreadyExists")
    ELSE Returned(PutState(ws, id, Encode(SensorAsset(id, a))))

\* Faulty ReadAsset: the check for an empty value is left out.
ReadAssetNoCheck(ws, id) == Result(ws, "None", GetState(ws, id), FALSE, Undefined)

ReadAsset(ws, id) ==
    LET assetJSON == GetState(ws, id)
    IN  IF Len(assetJSON) = 0 THEN Thrown(ws, "NotFound")
        ELSE Result(ws, "None", assetJSON, FALSE, Undefined)

\* Faulty UpdateAsset: the existence check is left out.
UpdateAssetNoCheck(ws, id, a) ==
    Returned(PutState(ws, id, Encode(SensorAsset(id, a))))

UpdateAsset(ws, id, a) ==
    IF ~AssetExists(ws, id).bool THEN Thrown(ws, "NotFound")
    ELSE Returned(PutState(ws, id, Encode(SensorAsset(id, a))))

\* Faulty DeleteAsset: every key of the namespace is deleted.
DeleteAssetClearsAll(ws, id) ==
    IF ~AssetExists(ws, id).bool THEN Thrown(ws, "NotFound")
    ELSE Returned([k \in {} |-> <<>>])

DeleteAsset(ws, id) ==
    IF ~AssetExists(ws, id).bool THEN Thrown(ws, "NotFound")
    ELSE Returned(DeleteState(ws, id))

\* Faulty TransferAsset: Owner is read after it was assigned, so the new owner
\* is returned.
TransferAssetReturnsNew(ws, id, newOwner) ==
    LET read == ReadAsset(ws, id)
        parsed == JSONParse(read.text)
        asset == SetProp(parsed.obj, "Owner", StrV(newOwner))
        oldOwner == GetProp(asset, "Owner")
    IN  IF read.err # "None" THEN Thrown(ws, read.err)
        ELSE IF ~parsed.ok THEN Thrown(ws, "SyntaxError")
        ELSE Result(PutState(ws, id, Encode(asset)), "None", <<>>, FALSE, oldOwner)

TransferAsset(ws, id, newOwner) ==
    LET read == ReadAsset(ws, id)
        parsed == JSONParse(read.text)
        oldOwner == GetProp(parsed.obj, "Owner")
        asset == SetProp(parsed.obj, "Owner", StrV(newOwner))
    IN  IF read.err # "None" THEN Thrown(ws, read.err)
        ELSE IF ~parsed.ok THEN Thrown(ws, "SyntaxError")
        ELSE Result(PutState(ws, id, Encode(asset)), "None", <<>>, FALSE, oldOwner)

\* One pass of GetAllAssets' loop: the record pushed for a scanned value, as the
\* text JSON.stringify gives it inside the array.
RecordText(value) ==
    LET strValue == value
        parsed == JSONParse(strValue)
    IN  IF parsed.ok THEN JSONStringify(parsed.obj)
        ELSE <<StrTok(TextToString(strValue))>>

\* Faulty GetAllAssets: iterator.next() is called twice before the loop, so the
\* first scanned value is never pushed.
GetAllAssetsSkipsFirst(ws) ==
    LET scan == GetStateByRange(ws)
        allResults == [i \in 1..Len(scan) - 1 |-> RecordText(scan[i + 1].value)]
    IN  Result(ws, "None", <<LBrack>> \o Join(allResults) \o <<RBrack>>, FALSE, Undefined)

GetAllAssets(ws) ==
    LET scan == GetStateByRange(ws)
        allResults == [i \in 1..Len(scan) |-> RecordText(scan[i].value)]
    IN  Result(ws, "None", <<LBrack>> \o Join(allResults) \o <<RBrack>>, FALSE, Undefined)

\* --------------------------------------------------------- metric contract
MetricSeedAsset ==
    << Member("Timestamp", StrV("00:00:00")),
       Member("Methanelevel", NumV(0)) >>

MetricSeedAssets == <<MetricSeedAsset>>

MetricInitLedger(ws) == Returned(PutSeeds(ws, MetricSeedAssets, "Timestamp"))

\* Faulty record literal: the timestamp is not written as a property.
MetricAssetNoTimestamp(timestamp, a) ==
    << Member("Methanelevel", NumV(a.methanelevel)) >>

MetricAsset(timestamp, a) ==
    << Member("Timestamp", StrV(timestamp)),
       Member("Methanelevel", NumV(a.methanelevel)) >>

MetricAssetExists(ws, timestamp) ==
    LET assetJSON == GetState(ws, timestamp)
    IN  Result(ws, "None", <<>>, Len(assetJSON) > 0, Undefined)

\* Faulty CreateAsset: the record is put as the text of the object itself,
\* which is no JSON.
MetricCreateAssetRaw(ws, timestamp, a) ==
    IF MetricAssetExists(ws, timestamp).bool THEN Thrown(ws, "AlreadyExists")
    ELSE Returned(PutState(ws, timestamp, <<WordTok("[object Object]")>>))

MetricCreateAsset(ws, timestamp, a) ==
    IF MetricAssetExists(ws, timestamp).bool THEN Thrown(ws, "AlreadyExists")
    ELSE Returned(PutState(ws, timestamp, Encode(MetricAsset(timestamp, a))))

MetricReadAsset(ws, timestamp) ==
    LET assetJSON == GetState(ws, timestamp)
    IN  IF Len(assetJSON) = 0 THEN Thrown(ws, "NotFound")
        ELSE Result(ws, "None", assetJSON, FALSE, Undefined)

MetricUpdateAsset(ws, timestamp, a) ==
    IF ~MetricAssetExists(ws, timestamp).bool THEN Thrown(ws, "NotFound")
    ELSE Returned(PutState(ws, timestamp, Encode(MetricAsset(timestamp, a))))

\* Line 322 passes `id` to AssetExists, and the method has no `id` (nor has the
\* module or Node's global object): evaluating the argument throws a
\* ReferenceError before anything is read or deleted.
MetricDeleteAsset(ws, timestamp) == Thrown(ws, "ReferenceError")

MetricGetAllAssets(ws) ==
    LET scan == GetStateByRange(ws)
        allResults == [i \in 1..Len(scan) |-> RecordText(scan[i].value)]
    IN  Result(ws, "None", <<LBrack>> \o Join(allResults) \o <<RBrack>>, FALSE, Undefined)

\* ------------------------------------------------------------ the machine
VARIABLES
    variant,     \* which contract the namespace runs: "sensor" or "metric"
    worldState,  \* key -> value, for the keys that hold one
    history,     \* per key: the last write or delete a returned invocation made
    last,        \* the last invocation: its name, arguments and outcome
    pending,     \* the simulated transactions that await validation and commit
    version      \* per key: how many committed transactions wrote it

vars == <<variant, worldState, history, last, pending, version>>

KeySet == {AllKeys[i] : i \in 1..Len(AllKeys)}

SensorSeedKey == GetProp(SeedAsset, "ID").s

MetricSeedKey == GetProp(MetricSeedAsset, "Timestamp").s

Empty == [k \in {} |-> <<>>]

\* A value put by something other than this contract, and no JSON.
LegacyValue == <<WordTok("legacy")>>

NoArgs == [none |-> 0]

\* The parameters a client gives CreateAsset and UpdateAsset of the sensor contract.
SensorArgs ==
    {[snr |-> n, vbat |-> n, latitude |-> n, longitude |-> n, gas_resistance |-> n,
      temperature |-> n, pressure |-> n, humidity |-> n, light |-> n,
      gyroscope |-> <<n, 0, n>>, accelerometer |-> <<n, n, n>>, owner |-> o] :
        n \in Nums, o \in Owners}

MetricArgs == {[methanelevel |-> n] : n \in Nums}

Init ==
    /\ variant \in {"sensor", "metric"}
    /\ worldState = Empty
    /\ history = [k \in KeySet |-> [kind |-> "none", bytes |-> <<>>]]
    /\ last = [op |-> "none", key |-> "", args |-> NoArgs, newOwner |-> "",
               err |-> "None", text |-> <<>>, bool |-> FALSE, val |-> Undefined]
    /\ pending = <<>>
    /\ version = [k \in KeySet |-> 0]

\* The namespace may also start with a value at one key that an earlier
\* chaincode left there.
InitLegacy ==
    /\ variant \in {"sensor", "metric"}
    /\ worldState \in {Empty} \cup {[k \in {key} |-> LegacyValue] : key \in Keys}
    /\ history = [k \in KeySet |-> [kind |-> "none", bytes |-> <<>>]]
    /\ last = [op |-> "none", key |-> "", args |-> NoArgs, newOwner |-> "",
               err |-> "None", text |-> <<>>, bool |-> FALSE, val |-> Undefined]
    /\ pending = <<>>
    /\ version = [k \in KeySet |-> 0]

\* One invocation: the puts and deletes it issued reach the world state, its
\* outcome is recorded, and a returned put or delete is noted for its key.
Invoke(op, key, args, newOwner, r, kind) ==
    /\ worldState' = r.ws
    /\ last' = [op |-> op, key |-> key, args |-> args, newOwner |-> newOwner,
                err |-> r.err, text |-> r.text, bool |-> r.bool, val |-> r.val]
    /\ history' = IF r.err = "None" /\ kind # "read"
                  THEN [history EXCEPT ![key] =
                            [kind |-> kind, bytes |-> GetState(r.ws, key)]]
                  ELSE history
    /\ UNCHANGED <<variant, pending, version>>

InvokeInitLedger ==
    /\ variant = "sensor"
    /\ Invoke("InitLedger", SensorSeedKey, NoArgs, "", InitLedger(worldState), "put")

InvokeCreateAsset ==
    /\ variant = "sensor"
    /\ \E id \in Keys, a \in SensorArgs :
        Invoke("CreateAsset", id, a, "", CreateAsset(worldState, id, a), "put")

InvokeReadAsset ==
    /\ variant = "sensor"
    /\ \E id \in Keys :
        Invoke("ReadAsset", id, NoArgs, "", ReadAsset(worldState, id), "read")

InvokeUpdateAsset ==
    /\ variant = "sensor"
    /\ \E id \in Keys, a \in SensorArgs :
        Invoke("UpdateAsset", id, a, "", UpdateAsset(worldState, id, a), "put")

InvokeDeleteAsset ==
    /\ variant = "sensor"
    /\ \E id \in Keys :
        Invoke("DeleteAsset", id, NoArgs, "", DeleteAsset(worldState, id), "del")

InvokeAssetExists ==
    /\ variant = "sensor"
    /\ \E id \in Keys :
        Invoke("AssetExists", id, NoArgs, "", AssetExists(worldState, id), "read")

InvokeTransferAsset ==
    /\ variant = "sensor"
    /\ \E id \in Keys, newOwner \in Owners :
        Invoke("TransferAsset", id, NoArgs, newOwner,
               TransferAsset(worldState, id, newOwner), "put")

InvokeGetAllAssets ==
    /\ variant = "sensor"
    /\ Invoke("GetAllAssets", "", NoArgs, "", GetAllAssets(worldState), "read")

InvokeMetricInitLedger ==
    /\ variant = "metric"
    /\ Invoke("InitLedger", MetricSeedKey, NoArgs, "", MetricInitLedger(worldState), "put")

InvokeMetricCreateAsset ==
    /\ variant = "metric"
    /\ \E timestamp \in Keys, a \in MetricArgs :
        Invoke("CreateAsset", timestamp, a, "",
               MetricCreateAsset(worldState, timestamp, a), "put")

InvokeMetricReadAsset ==
    /\ variant = "metric"
    /\ \E timestamp \in Keys :
        Invoke("ReadAsset", timestamp, NoArgs, "",
               MetricReadAsset(worldState, timestamp), "read")

InvokeMetricUpdateAsset ==
    /\ variant = "metric"
    /\ \E timestamp \in Keys, a \in MetricArgs :
        Invoke("UpdateAsset", timestamp, a, "",
               MetricUpdateAsset(worldState, timestamp, a), "put")

InvokeMetricDeleteAsset ==
    /\ variant = "metric"
    /\ \E timestamp \in Keys :
        Invoke("DeleteAsset", timestamp, NoArgs, "",
               MetricDeleteAsset(worldState, timestamp), "del")

InvokeMetricAssetExists ==
    /\ variant = "metric"
    /\ \E timestamp \in Keys :
        Invoke("AssetExists", timestamp, NoArgs, "",
               MetricAssetExists(worldState, timestamp), "read")

InvokeMetricGetAllAssets ==
    /\ variant = "metric"
    /\ Invoke("GetAllAssets", "", NoArgs, "", MetricGetAllAssets(worldState), "read")

Next ==
    \/ InvokeInitLedger
    \/ InvokeCreateAsset
    \/ InvokeReadAsset
    \/ InvokeUpdateAsset
    \/ InvokeDeleteAsset
    \/ InvokeAssetExists
    \/ InvokeTransferAsset
    \/ InvokeGetAllAssets
    \/ InvokeMetricInitLedger
    \/ InvokeMetricCreateAsset
    \/ InvokeMetricReadAsset
    \/ InvokeMetricUpdateAsset
    \/ InvokeMetricDeleteAsset
    \/ InvokeMetricAssetExists
    \/ InvokeMetricGetAllAssets

Spec == Init /\ [][Next]_vars

SpecLegacy == InitLegacy /\ [][Next]_vars

\* ------------------------------------------- concurrent invocations (sensor)
\* The Ledger Runtime of the specification: an invocation is first simulated
\* against the committed world state, which records the version of every key
\* it reads and the write it issues; the simulated transactions are then
\* ordered, and each is validated when it is delivered: it commits when every
\* key it read still has the version it read, and is dropped otherwise.

\* The keys a transaction function calls getState on: each of CreateAsset,
\* UpdateAsset and DeleteAsset (through AssetExists) and TransferAsset (through
\* ReadAsset) reads the key it is given, and no other.
ReadKeys(op, id) == {id}

\* The read set of a simulation: the keys read, each with its version then.
ReadSet(op, id) == [k \in ReadKeys(op, id) |-> version[k]]

\* A simulated transaction: its invocation, its read set, the one write it
\* issued (a delete when the key holds nothing afterwards) and its return value.
Transaction(op, id, args, newOwner, r) ==
    [op |-> op, key |-> id, args |-> args, newOwner |-> newOwner,
     reads |-> ReadSet(op, id),
     del |-> id \notin DOMAIN r.ws, value |-> GetState(r.ws, id), val |-> r.val]

\* Validation at commit time.
Valid(tx, ver) == \A k \in DOMAIN tx.reads : ver[k] = tx.reads[k]

RemoveAt(seq, i) == SubSeq(seq, 1, i - 1) \o SubSeq(seq, i + 1, Len(seq))

\* A simulation that returns is handed to ordering; one that throws goes back
\* to the client and is never ordered.
Propose(op, id, args, newOwner, r) ==
    /\ variant = "sensor"
    /\ Len(pending) < MaxPending
    /\ version[id] < MaxVersion
    /\ r.err = "None"
    /\ pending' = Append(pending, Transaction(op, id, args, newOwner, r))
    /\ UNCHANGED <<variant, worldState, history, last, version>>

\* The readings concurrent clients submit: one reading, under either owner.
ConcArgs == {a \in SensorArgs : a.snr = Unit}

\* The key the concurrent clients contend for.
ContendedKeys == {"k1"}

ProposeCreateAsset ==
    \E id \in ContendedKeys, a \in ConcArgs :
        Propose("CreateAsset", id, a, "", CreateAsset(worldState, id, a))

ProposeUpdateAsset ==
    \E id \in ContendedKeys, a \in ConcArgs :
        Propose("UpdateAsset", id, a, "", UpdateAsset(worldState, id, a))

ProposeDeleteAsset ==
    \E id \in ContendedKeys :
        Propose("DeleteAsset", id, NoArgs, "", DeleteAsset(worldState, id))

ProposeTransferAsset ==
    \E id \in ContendedKeys, newOwner \in Owners :
        Propose("TransferAsset", id, NoArgs, newOwner,
                TransferAsset(worldState, id, newOwner))

\* The ordered transaction pending[i] is delivered: validated, and committed or
\* dropped as a whole.
Deliver(i) ==
    \E tx \in {pending[i]} :
        /\ pending' = RemoveAt(pending, i)
        /\ last' = [op |-> tx.op, key |-> tx.key, args |-> tx.args,
                    newOwner |-> tx.newOwner,
                    err |-> IF Valid(tx, version) THEN "None" ELSE "MVCC_READ_CONFLICT",
                    text |-> <<>>, bool |-> FALSE, val |-> tx.val]
        /\ IF Valid(tx, version)
           THEN /\ worldState' = IF tx.del THEN DeleteState(worldState, tx.key)
                                 ELSE PutState(worldState, tx.key, tx.value)
                /\ version' = [version EXCEPT ![tx.key] = @ + 1]
                /\ history' = [history EXCEPT ![tx.key] =
                                  [kind |-> IF tx.del THEN "del" ELSE "put",
                                   bytes |-> tx.value]]
           ELSE UNCHANGED <<worldState, version, history>>
        /\ UNCHANGED variant

DeliverNext == \E i \in 1..Len(pending) : Deliver(i)

InitConc ==
    /\ variant = "sensor"
    /\ worldState = Empty
    /\ history = [k \in KeySet |-> [kind |-> "none", bytes |-> <<>>]]
    /\ last = [op |-> "none", key |-> "", args |-> NoArgs, newOwner |-> "",
               err |-> "None", text |-> <<>>, bool |-> FALSE, val |-> Undefined]
    /\ pending = <<>>
    /\ version = [k \in KeySet |-> 0]

NextConc ==
    \/ ProposeCreateAsset
    \/ ProposeUpdateAsset
    \/ ProposeDeleteAsset
    \/ ProposeTransferAsset
    \/ DeliverNext

SpecConc == InitConc /\ [][NextConc]_vars

\* ------------------------------------------------------------- properties
\* An object as a mapping from property name to value (insertion order dropped).
ObjMap(obj) == [name \in {obj[i].k : i \in 1..Len(obj)} |-> GetProp(obj, name)]

\* The field set an invocation of Create or Update was given, key included, as
\* an object of the running contract.
GivenFields(key, args) ==
    IF variant = "sensor" THEN SensorAsset(key, args) ELSE MetricAsset(key, args)

\* ReadAsset of the running contract.
Read(ws, key) ==
    IF variant = "sensor" THEN ReadAsset(ws, key) ELSE MetricReadAsset(ws, key)

\* AssetExists of the running contract.
Exists(ws, key) ==
    IF variant = "sensor" THEN AssetExists(ws, key) ELSE MetricAssetExists(ws, key)

\* C1: a Create on key k that directly follows a returned Create(k, f1) throws
\* AlreadyExists and leaves the world state as the first call left it: k still
\* holds the encoding of f1 and no key changed.
C1_NoDoubleCreate ==
    [][(/\ last.op = "CreateAsset" /\ last.err = "None"
        /\ last'.op = "CreateAsset" /\ last'.key = last.key)
       => (/\ last'.err = "AlreadyExists"
           /\ worldState' = worldState
           /\ GetState(worldState', last.key) = Encode(GivenFields(last.key, last.args)))]_vars

\* C1 witness: a Create was refused on a key that holds another record than the
\* one the refused call would have written.
C1_Witness ==
    /\ last.op = "CreateAsset" /\ last.err = "AlreadyExists"
    /\ history[last.key].kind = "put"
    /\ GetState(worldState, last.key) # Encode(GivenFields(last.key, last.args))

\* C2 (as claimed): a Read of k that directly follows a returned Create(k, f)
\* returns a text that decodes to the mapping f plus docType = 'asset'.
C2_CreateReadRoundTrip ==
    [][(/\ last.op = "CreateAsset" /\ last.err = "None"
        /\ last'.op = "ReadAsset" /\ last'.key = last.key)
       => \A parsed \in {JSONParse(last'.text)},
             given \in {SetProp(GivenFields(last.key, last.args), "docType", StrV("asset"))} :
            /\ last'.err = "None"
            /\ parsed.ok
            /\ ObjMap(parsed.obj) = ObjMap(given)]_vars

\* C3 (as claimed): every value in the world state is a record whose docType is
\* 'asset'.
C3_DocTypeOnEveryWrite ==
    \A k \in DOMAIN worldState :
        /\ JSONParse(worldState[k]).ok
        /\ GetProp(JSONParse(worldState[k]).obj, "docType") = StrV("asset")

\* C4: Exists never throws, and it answers true exactly when the last returned
\* mutating invocation on the key was a write (Create, Update, Transfer or
\* InitLedger): false when there was none or when it was a Delete.
C4_ExistencePrecision ==
    last.op = "AssetExists" =>
        /\ last.err = "None"
        /\ last.bool = (history[last.key].kind = "put")

\* C4 witness: Exists answered false for a key whose last mutation was a Delete.
C4_Witness ==
    /\ last.op = "AssetExists" /\ ~last.bool
    /\ history[last.key].kind = "del"

\* C5 (as claimed): in both contracts Delete(k) on a present key returns and
\* leaves k absent, so that Read(k) throws NotFound and Exists(k) is false; on
\* an absent key it throws NotFound and changes nothing.
C5_DeleteContract ==
    [][last'.op = "DeleteAsset"
       => IF last'.key \in DOMAIN worldState
          THEN /\ last'.err = "None"
               /\ last'.key \notin DOMAIN worldState'
               /\ Read(worldState', last'.key).err = "NotFound"
               /\ ~Exists(worldState', last'.key).bool
          ELSE /\ last'.err = "NotFound"
               /\ worldState' = worldState]_vars

\* C6 (as claimed): Update(k, f2) on a present key returns, and Read(k) then
\* decodes exactly to f2; on an absent key it throws NotFound and creates nothing.
C6_UpdateReplacesFully ==
    [][last'.op = "UpdateAsset"
       => IF last'.key \in DOMAIN worldState
          THEN \A read \in {Read(worldState', last'.key)} :
                \A parsed \in {JSONParse(read.text)},
                   given \in {GivenFields(last'.key, last'.args)} :
                    /\ last'.err = "None"
                    /\ read.err = "None"
                    /\ parsed.ok
                    /\ ObjMap(parsed.obj) = ObjMap(given)
          ELSE /\ last'.err = "NotFound"
               /\ last'.key \notin DOMAIN worldState'
               /\ worldState' = worldState]_vars

\* C7: Transfer(k, B) on a present key returns the Owner stored at k, and
\* leaves at k a record with the same properties, Owner = B and every other
\* property as before; on an absent key it throws NotFound and writes nothing.
C7_TransferSwapsOwner ==
    [][last'.op = "TransferAsset"
       => IF last'.key \in DOMAIN worldState
          THEN \A parsedBefore \in {JSONParse(worldState[last'.key])},
                  parsedAfter \in {JSONParse(GetState(worldState', last'.key))} :
                  \A before \in {ObjMap(parsedBefore.obj)},
                     after \in {ObjMap(parsedAfter.obj)} :
                   /\ last'.err = "None"
                   /\ last'.val = before["Owner"]
                   /\ DOMAIN worldState' = DOMAIN worldState
                   /\ parsedAfter.ok
                   /\ DOMAIN after = DOMAIN before
                   /\ after["Owner"] = StrV(last'.newOwner)
                   /\ \A name \in DOMAIN before \ {"Owner"} : after[name] = before[name]
          ELSE /\ last'.err = "NotFound"
               /\ worldState' = worldState]_vars

\* C7 witness: a Transfer returned the previous owner A of a record that
\* carries docType, and the record's Owner is now B.
C7_Witness ==
    /\ last.op = "TransferAsset" /\ last.err = "None"
    /\ last.val = StrV("A") /\ last.newOwner = "B"
    /\ GetProp(JSONParse(GetState(worldState, last.key)).obj, "Owner") = StrV("B")
    /\ HasProp(JSONParse(GetState(worldState, last.key)).obj, "docType")

\* C8: Read(k) returns exactly the bytes of the last returned write on k, and
\* throws NotFound when there was no write or a Delete came after it.
C8_ReadReturnsLastWrite ==
    last.op = "ReadAsset" =>
        IF history[last.key].kind = "put"
        THEN last.err = "None" /\ last.text = history[last.key].bytes
        ELSE last.err = "NotFound"

\* C8 witness: a Read returned the bytes of a record.
C8_Witness ==
    /\ last.op = "ReadAsset" /\ last.err = "None"
    /\ JSONParse(last.text).ok

\* The element texts of an array text: its tokens between the outer brackets,
\* cut at the commas that lie in no inner bracket or brace.
SplitEntries(text) ==
    LET inner == 2..Len(text) - 1
        opened == {j \in inner : text[j].t \in {"{", "["}}
        closed == {j \in inner : text[j].t \in {"}", "]"}}
        cuts == {j \in inner :
                    /\ text[j].t = ","
                    /\ Cardinality({o \in opened : o < j})
                         = Cardinality({c \in closed : c < j})}
        bounds == {1} \cup cuts \cup {Len(text)}
        nth(n) == CHOOSE b \in bounds : Cardinality({c \in bounds : c < b}) = n - 1
    IN  IF Len(text) <= 2 THEN <<>>
        ELSE [n \in 1..Cardinality(cuts) + 1 |->
                 SubSeq(text, nth(n) + 1, nth(n + 1) - 1)]

\* The keys of S in ascending order.
KeysInScanOrder(S) ==
    CHOOSE seq \in [1..Cardinality(S) -> S] :
        \A i, j \in 1..Cardinality(S) : i < j => KeyRank(seq[i]) < KeyRank(seq[j])

\* C9: ListAll never throws and returns a JSON array with one element per key
\* of the world state, in ascending key order: the record the key's value
\* decodes to, or, for a value that is no JSON, the value's text as a string.
C9_ListAllCompleteness ==
    last.op = "GetAllAssets" =>
        \A entries \in {SplitEntries(last.text)},
           keys \in {KeysInScanOrder(DOMAIN worldState)} :
            /\ last.err = "None"
            /\ Len(last.text) >= 2
            /\ Head(last.text) = LBrack /\ last.text[Len(last.text)] = RBrack
            /\ Len(entries) = Cardinality(DOMAIN worldState)
            /\ \A i \in 1..Len(entries) :
                \A stored \in {JSONParse(worldState[keys[i]])},
                   listed \in {JSONParse(entries[i])} :
                    IF stored.ok
                    THEN listed.ok /\ ObjMap(listed.obj) = ObjMap(stored.obj)
                    ELSE entries[i] = <<StrTok(TextToString(worldState[keys[i]]))>>

\* C9 witness: a listing of two keys, one of them holding a value that is no JSON.
C9_Witness ==
    /\ last.op = "GetAllAssets"
    /\ Cardinality(DOMAIN worldState) = 2
    /\ \E k1, k2 \in DOMAIN worldState :
        /\ KeyRank(k1) < KeyRank(k2)
        /\ worldState[k1] = LegacyValue
        /\ JSONParse(worldState[k2]).ok

\* C10: an invocation that throws leaves the world state as it found it.
C10_FailureLeavesStateUntouched ==
    [][last'.err # "None" => worldState' = worldState]_vars

\* C10 witness: a Transfer threw on a stored value that is no JSON.
C10_Witness ==
    /\ last.op = "TransferAsset" /\ last.err = "SyntaxError"
    /\ GetState(worldState, last.key) = LegacyValue

\* InitLedger of the running contract.
Bootstrap(ws) == IF variant = "sensor" THEN InitLedger(ws) ELSE MetricInitLedger(ws)

\* The key and the bytes of the seed record of the running contract.
SeedKey == IF variant = "sensor" THEN SensorSeedKey ELSE MetricSeedKey

SeedBytes ==
    Encode(SetProp(IF variant = "sensor" THEN SeedAsset ELSE MetricSeedAsset,
                   "docType", StrV("asset")))

\* C11: InitLedger never throws; whatever the seed key held, it then holds the
\* seed record; no other key changes; and a second InitLedger changes nothing.
C11_BootstrapOverwrites ==
    [][last'.op = "InitLedger"
       => \A again \in {Bootstrap(worldState')} :
            /\ last'.err = "None"
            /\ GetState(worldState', SeedKey) = SeedBytes
            /\ DOMAIN worldState' = DOMAIN worldState \cup {SeedKey}
            /\ \A k \in DOMAIN worldState \ {SeedKey} : worldState'[k] = worldState[k]
            /\ again.err = "None"
            /\ again.ws = worldState']_vars

\* C11 witness: InitLedger has run on a namespace that holds another key too.
C11_Witness ==
    /\ last.op = "InitLedger" /\ last.err = "None"
    /\ GetState(worldState, SeedKey) = SeedBytes
    /\ \E k \in DOMAIN worldState : k # SeedKey

\* C12: a Create that commits wrote a key that held nothing in the committed
\* state it was validated against, the key then holds exactly its record, and
\* every other Create on that key that is still awaiting its commit has become
\* invalid; a Create that fails validation changes nothing.
C12_CreateRace ==
    [][\A i \in 1..Len(pending) :
         (pending' = RemoveAt(pending, i) /\ pending[i].op = "CreateAsset")
         => \A tx \in {pending[i]} :
              IF last'.err = "None"
              THEN /\ tx.key \notin DOMAIN worldState
                   /\ worldState' = PutState(worldState, tx.key,
                                             Encode(SensorAsset(tx.key, tx.args)))
                   /\ \A j \in 1..Len(pending') :
                        (pending'[j].op = "CreateAsset" /\ pending'[j].key = tx.key)
                        => ~Valid(pending'[j], version')
              ELSE /\ last'.err = "MVCC_READ_CONFLICT"
                   /\ worldState' = worldState
                   /\ version' = version]_vars

\* C12 witness: two Creates were simulated on the same absent key; the first
\* committed, the second was rejected at validation, and the key holds the
\* record of the first, which is not the one the second would have written.
C12_Witness ==
    /\ last.op = "CreateAsset" /\ last.err = "MVCC_READ_CONFLICT"
    /\ version[last.key] = 1
    /\ last.key \in DOMAIN worldState
    /\ worldState[last.key] # Encode(SensorAsset(last.key, last.args))

\* C13: a Transfer that commits is applied to the very record it read: the
\* record at its key differs from the committed record before it in Owner
\* only, and the value it returns is the Owner of that record; a Transfer that
\* fails validation leaves the committed state as it was.
C13_TransferAtomic ==
    [][\A i \in 1..Len(pending) :
         (pending' = RemoveAt(pending, i) /\ pending[i].op = "TransferAsset")
         => \A tx \in {pending[i]} :
              IF last'.err = "None"
              THEN /\ tx.key \in DOMAIN worldState
                   /\ \A parsedBefore \in {JSONParse(GetState(worldState, tx.key))},
                         parsedAfter \in {JSONParse(GetState(worldState', tx.key))} :
                        \A before \in {ObjMap(parsedBefore.obj)},
                           after \in {ObjMap(parsedAfter.obj)} :
                          /\ parsedBefore.ok /\ parsedAfter.ok
                          /\ last'.val = before["Owner"]
                          /\ DOMAIN after = DOMAIN before
                          /\ after["Owner"] = StrV(tx.newOwner)
                          /\ \A name \in DOMAIN before \ {"Owner"} :
                               after[name] = before[name]
                   /\ \A k \in DOMAIN worldState \ {tx.key} :
                        GetState(worldState', k) = worldState[k]
              ELSE /\ last'.err = "MVCC_READ_CONFLICT"
                   /\ worldState' = worldState
                   /\ version' = version
                   /\ history' = history]_vars

\* C13 witness: a Transfer to B committed and returned the previous owner A
\* while an Update of the same key, simulated against the record the Transfer
\* replaced, is still awaiting its commit.
C13_Witness ==
    /\ last.op = "TransferAsset" /\ last.err = "None"
    /\ last.val = StrV("A") /\ last.newOwner = "B"
    /\ GetProp(JSONParse(GetState(worldState, last.key)).obj, "Owner") = StrV("B")
    /\ \E j \in 1..Len(pending) :
         /\ pending[j].op = "UpdateAsset" /\ pending[j].key = last.key
         /\ ~Valid(pending[j], version)

\* The members of obj in the opposite insertion order.
ReverseMembers(obj) == [i \in 1..Len(obj) |-> obj[Len(obj) + 1 - i]]

\* C14 (as claimed): the bytes a returned Create or Update stores are the same
\* whichever order the fields were assigned in, and they are the fields with the
\* keys in ascending order and every array in the element order it was given in.
C14_CanonicalDeterminism ==
    (last.op \in {"CreateAsset", "UpdateAsset"} /\ last.err = "None")
    => \A given \in {GivenFields(last.key, last.args)} :
         /\ Encode(ReverseMembers(given)) = Encode(given)
         /\ GetState(worldState, last.key) = Encode(given)
         /\ GetState(worldState, last.key) = JSONStringify(SortKeys(given))

\* What does hold: the stored bytes do not depend on the insertion order.
C14_OrderIndependent ==
    (last.op \in {"CreateAsset", "UpdateAsset"} /\ last.err = "None")
    => \A given \in {GivenFields(last.key, last.args)} :
         /\ Encode(ReverseMembers(given)) = Encode(given)
         /\ GetState(worldState, last.key) = Encode(given)

\* The property a record of the running contract carries its key in.
KeyField == IF variant = "sensor" THEN "ID" ELSE "Timestamp"

\* The properties of the record stored at k whose value is the key k itself.
FieldsHoldingKey(k) ==
    LET obj == JSONParse(GetState(worldState, k)).obj
    IN  {obj[i].k : i \in {j \in 1..Len(obj) : obj[j].v = StrV(k)}}

\* C15 (as claimed): a stored sensor record carries its ledger key in ID and in
\* no other property, and a stored metric record carries it in no property.
C15_KeyOnlyInSensorID ==
    \A k \in DOMAIN worldState :
        FieldsHoldingKey(k) = IF variant = "sensor" THEN {"ID"} ELSE {}

\* C15 (amended): every stored record carries its ledger key in exactly one
\* property, ID in the sensor contract and Timestamp in the metric contract,
\* whatever operations wrote the record.
C15_KeyFieldEqualsKey ==
    \A k \in DOMAIN worldState :
        /\ JSONParse(GetState(worldState, k)).ok
        /\ FieldsHoldingKey(k) = {KeyField}

\* C15 witness: a metric record that was created and then updated holds its
\* key as Timestamp.
C15_Witness ==
    /\ variant = "metric"
    /\ last.op = "UpdateAsset" /\ last.err = "None"
    /\ GetProp(JSONParse(GetState(worldState, last.key)).obj, "Timestamp") = StrV(last.key)

\* C16: a key that held nothing holds a value after a step only if the step is
\* a returned Create on that key or a returned InitLedger that seeds it; a key
\* that held a value holds nothing after a step only if the step is a returned
\* Delete on that key; Update and Transfer leave the set of present keys alone.
C16_LifecycleTransitions ==
    [][/\ \A k \in DOMAIN worldState' \ DOMAIN worldState :
            /\ last'.err = "None"
            /\ \/ last'.op = "CreateAsset" /\ last'.key = k
               \/ last'.op = "InitLedger" /\ k = SeedKey
       /\ \A k \in DOMAIN worldState \ DOMAIN worldState' :
            /\ last'.err = "None"
            /\ last'.op = "DeleteAsset" /\ last'.key = k
       /\ last'.op \in {"UpdateAsset", "TransferAsset"}
            => DOMAIN worldState' = DOMAIN worldState]_vars

\* C16 witness: a key that was written and then deleted holds nothing.
C16_Witness ==
    /\ last.op = "DeleteAsset" /\ last.err = "None"
    /\ history[last.key].kind = "del"
    /\ last.key \notin DOMAIN worldState

\* C17: Create, Update, Delete and Transfer on key k leave every other key as
\* it was; Read, Exists and ListAll leave the whole world state as it was.
C17_Frame ==
    [][/\ last'.op \in {"CreateAsset", "UpdateAsset", "DeleteAsset", "TransferAsset"}
            => \A k \in KeySet \ {last'.key} :
                 /\ k \in DOMAIN worldState' <=> k \in DOMAIN worldState
                 /\ GetState(worldState', k) = GetState(worldState, k)
       /\ last'.op \in {"ReadAsset", "AssetExists", "GetAllAssets"}
            => worldState' = worldState]_vars

\* C17 witness: a Delete returned and another key still holds its record.
C17_Witness ==
    /\ last.op = "DeleteAsset" /\ last.err = "None"
    /\ \E k \in DOMAIN worldState : k # last.key /\ history[k].kind = "put"

\* C18: every value in the world state is non-empty and decodes to a record;
\* so AssetExists is true exactly of the present keys, ReadAsset returns for
\* every present key, TransferAsset returns for every present key, nothing
\* ever threw a SyntaxError, and a listing is the array of the decoded records.
C18_StoredValuesWellFormed ==
    /\ \A k \in DOMAIN worldState :
         /\ Len(worldState[k]) > 0
         /\ JSONParse(worldState[k]).ok
         /\ Read(worldState, k).err = "None"
         /\ variant = "sensor" =>
              \A newOwner \in Owners : TransferAsset(worldState, k, newOwner).err = "None"
         /\ RecordText(worldState[k]) = JSONStringify(JSONParse(worldState[k]).obj)
    /\ \A k \in KeySet : Exists(worldState, k).bool <=> k \in DOMAIN worldState
    /\ last.err # "SyntaxError"
    /\ last.op = "GetAllAssets" =>
         \A keys \in {KeysInScanOrder(DOMAIN worldState)} :
            last.text = <<LBrack>>
                        \o Join([i \in 1..Len(keys) |->
                                    JSONStringify(JSONParse(worldState[keys[i]]).obj)])
                        \o <<RBrack>>

\* C18 witness: a listing of two stored records, both listed as records.
C18_Witness ==
    /\ last.op = "GetAllAssets" /\ last.err = "None"
    /\ Cardinality(DOMAIN worldState) = 2
    /\ \A k \in DOMAIN worldState : JSONParse(worldState[k]).ok
    /\ \E k \in DOMAIN worldState : history[k].kind = "put" /\ k # SeedKey

====
